---- MODULE Spec2Model ----
(***************************************************************************)
(* Brick Mapper RAG pipeline (src/pipeline.py) and its batch loop          *)
(* (src/app.py).                                                           *)
(*                                                                         *)
(* Text is a sequence of characters; a character is a one-character string *)
(* except for three non-ASCII code points that Python's re and str treat   *)
(* specially, written by their code point: "U+212A" (KELVIN SIGN),         *)
(* "U+017F" (LATIN SMALL LETTER LONG S), "U+0663" (ARABIC-INDIC DIGIT 3),  *)
(* and for the backquote, "U+0060".                                        *)
(***************************************************************************)
EXTENDS Integers, Sequences, FiniteSets, TLC

VARIABLES
    raw,        \* SpecText: the text handed to _clean_prerequisites / _select_retriever
    tpc,        \* SpecText: "in" | "cleaned" | "recleaned" | "routed"
    cleaned,    \* SpecText: _clean_prerequisites(raw)
    recleaned,  \* SpecText: _clean_prerequisites(cleaned)
    routed,     \* SpecText: name of the retriever _select_retriever(raw) returns
    origin,     \* SpecParse: what the model meant: [doc, fence, cut]
    modelText,  \* SpecParse: the raw text the model emitted
    ppc,        \* SpecParse: "in" | "parsed"
    parsed,     \* SpecParse: outcome of _parse_json(modelText): [exc, val]
    rows,       \* Spec: the rows of the sheet, each with the two columns read
    idx,        \* Spec: rows done (enumerate's idx when a row starts)
    results,    \* Spec: process_operations' results list
    pc,         \* Spec: where the batch loop / run_batch_row stands
    operation_description, \* Spec: the argument of the run_batch_row call in progress
    retriever,  \* Spec: the retriever route_and_retrieve chose
    context,    \* Spec: the documents the retriever returned
    prompt,     \* Spec: the messages _build_prompt returned
    llmText,    \* Spec: the text StrOutputParser handed on
    result,     \* Spec: what chain.invoke returned
    bricks,     \* Spec: result.get("bricks", [])
    ids,        \* Spec: the list ids
    names,      \* Spec: the list names
    prereqs,    \* Spec: the list prereqs
    reasons,    \* Spec: the list reasons
    exc,        \* Spec: the exception in flight, NoExc when none
    rag_output, \* Spec: what run_batch_row returned
    env,        \* Spec: history: what the retriever and the model did per row
    fdocs,      \* SpecFormat: docs, the documents handed to _format_context
    fpc,        \* SpecFormat: "in" | "formatted"
    formatted   \* SpecFormat: _format_context(fdocs)

textVars == <<raw, tpc, cleaned, recleaned, routed>>
parseVars == <<origin, modelText, ppc, parsed>>
lists == <<ids, names, prereqs, reasons>>
callVars == <<operation_description, retriever, context, prompt, llmText, result, bricks,
              lists, exc, rag_output>>
batchVars == <<rows, idx, results, pc, callVars, env>>
formatVars == <<fdocs, fpc, formatted>>
vars == <<textVars, parseVars, batchVars, formatVars>>

\* ------------------------------------------------------------- characters

LowerAlpha == <<"a","b","c","d","e","f","g","h","i","j","k","l","m",
                "n","o","p","q","r","s","t","u","v","w","x","y","z">>
UpperAlpha == <<"A","B","C","D","E","F","G","H","I","J","K","L","M",
                "N","O","P","Q","R","S","T","U","V","W","X","Y","Z">>

KELVIN == "U+212A"
LONG_S == "U+017F"
ARABIC3 == "U+0663"

\* str.upper() on one character: the long s uppercases to S; the Kelvin sign
\* is already an uppercase letter and stays what it is.
UpperChar(c) ==
    IF \E i \in 1..26 : LowerAlpha[i] = c
    THEN UpperAlpha[CHOOSE i \in 1..26 : LowerAlpha[i] = c]
    ELSE IF c = LONG_S THEN "S" ELSE c

\* str.lower() on one character: the Kelvin sign lowercases to k.
LowerChar(c) ==
    IF \E i \in 1..26 : UpperAlpha[i] = c
    THEN LowerAlpha[CHOOSE i \in 1..26 : UpperAlpha[i] = c]
    ELSE IF c = KELVIN THEN "k" ELSE c

Upper(s) == [i \in 1..Len(s) |-> UpperChar(s[i])]

\* re.IGNORECASE on a str pattern: a literal matches a character with the same
\* lowercase, and s also matches the long s (sre's case equivalences).
IgnoreCaseEq(c, lit) ==
    \/ LowerChar(c) = LowerChar(lit)
    \/ LowerChar(lit) = "s" /\ c = LONG_S

\* \d on a str pattern: any Unicode decimal digit.
IsDigit(c) == c \in {"0","1","2","3","4","5","6","7","8","9", ARABIC3}

\* ------------------------------------------------- BRICK_ID_PATTERN engine
\* r'(KW|S|G)-\d+(\.\d+)?' with re.IGNORECASE

At(s, i) == IF i >= 1 /\ i <= Len(s) THEN s[i] ELSE "U+EOS"

\* Group 1, (KW|S|G), tried at position i: the number of characters it takes,
\* 0 when no alternative matches.
CategoryLen(s, i) ==
    IF IgnoreCaseEq(At(s, i), "K") /\ IgnoreCaseEq(At(s, i + 1), "W") THEN 2
    ELSE IF IgnoreCaseEq(At(s, i), "S") THEN 1
    ELSE IF IgnoreCaseEq(At(s, i), "G") THEN 1
    ELSE 0

\* \d+ from position i, greedy: the last position of the run of digits that
\* starts at i (i - 1 when s[i] is no digit).
RECURSIVE DigitsEnd(_, _)
DigitsEnd(s, i) == IF IsDigit(At(s, i)) THEN DigitsEnd(s, i + 1) ELSE i - 1

\* pattern.match(s, i): the last position of the match that starts at i, 0 when
\* there is none.
MatchEnd(s, i) ==
    LET n == CategoryLen(s, i)
        dash == i + n
        d1 == DigitsEnd(s, dash + 1)
        d2 == DigitsEnd(s, d1 + 2)
    IN  IF n = 0 \/ At(s, dash) # "-" \/ d1 < dash + 1 THEN 0
        ELSE IF At(s, d1 + 1) = "." /\ d2 >= d1 + 2 THEN d2
        ELSE d1

\* pattern.finditer(s) from position i: the spans <<first, last>> of the
\* non-overlapping matches, left to right. Each match is the one at the first
\* position at or after i where the pattern matches; the scan goes on after it.
RECURSIVE FindIterFrom(_, _)
FindIterFrom(s, i) ==
    LET starts == { p \in i..Len(s) : MatchEnd(s, p) # 0 }
    IN  IF starts = {} THEN <<>>
        ELSE LET p == CHOOSE p \in starts : \A q \in starts : p <= q
             IN  <<<<p, MatchEnd(s, p)>>>> \o FindIterFrom(s, MatchEnd(s, p) + 1)

FindIter(s) == FindIterFrom(s, 1)

\* pattern.search(s): TRUE when some position starts a match.
Search(s) == \E i \in 1..Len(s) : MatchEnd(s, i) # 0

\* match.group(0)
Group0(s, span) == SubSeq(s, span[1], span[2])

\* match.group(1), the category
Group1(s, span) == SubSeq(s, span[1], span[1] + CategoryLen(s, span[1]) - 1)

\* match.group(2), the sub-index with its dot ('' when it did not take part)
Group2(s, span) ==
    LET dash == span[1] + CategoryLen(s, span[1])
        d1 == DigitsEnd(s, dash + 1)
    IN  IF d1 < span[2] THEN SubSeq(s, d1 + 1, span[2]) ELSE <<>>

\* pattern.findall(s): with two groups, one tuple of the groups per match.
FindAll(s) ==
    LET spans == FindIter(s)
    IN  [k \in 1..Len(spans) |-> <<Group1(s, spans[k]), Group2(s, spans[k])>>]

\* sep.join(parts)
RECURSIVE Join(_, _)
Join(parts, sep) ==
    IF parts = <<>> THEN <<>>
    ELSE IF Len(parts) = 1 THEN parts[1]
    ELSE parts[1] \o sep \o Join(Tail(parts), sep)

DASH == <<"-">>
COMMA_SPACE == <<",", " ">>

\* ------------------------------------------------------------ the pipeline

\* A faulty variant: the ids without .upper()
CleanedIdsNoUpper(s) ==
    LET spans == FindIter(s)
    IN  [k \in 1..Len(spans) |-> Group0(s, spans[k])]

\* A faulty variant: the ids rebuilt from findall's group tuples, which lose the dash and
\* the digits before the dot
CleanedIdsFromGroups(s) ==
    LET groups == FindAll(s)
    IN  [k \in 1..Len(groups) |-> Upper(groups[k][1] \o groups[k][2])]

\* The ids the loop over finditer collects: group(0) of each match, uppercased.
CleanedIds(s) ==
    LET spans == FindIter(s)
    IN  [k \in 1..Len(spans) |-> Upper(Group0(s, spans[k]))]

\* RAGPipeline._clean_prerequisites
clean_prerequisites(raw_prereq_string) ==
    IF raw_prereq_string = <<>> \/ raw_prereq_string = DASH THEN DASH
    ELSE LET matches == FindAll(raw_prereq_string)
             cleaned_ids == IF matches # <<>> THEN CleanedIds(raw_prereq_string) ELSE <<>>
         IN  IF cleaned_ids = <<>> THEN DASH
             ELSE Join(cleaned_ids, COMMA_SPACE)

\* A faulty variant: pattern.match, anchored at the start of the query, instead of search
select_retriever_anchored(query) ==
    IF MatchEnd(query, 1) # 0 THEN "specific" ELSE "general"

\* RAGPipeline._select_retriever
select_retriever(query) == IF Search(query) THEN "specific" ELSE "general"


\* ---------------------------------------------------------------- JSON values
\* What json.loads returns: a tag and a payload, the payload always a sequence:
\* the characters of a str, the literal of a number, the items of a list, the
\* <<key, value>> members of a dict in insertion order.

JStr(cs) == [t |-> "str", v |-> cs]
JNum(lit) == [t |-> "num", v |-> lit]
JNull == [t |-> "null", v |-> <<>>]
JTrue == [t |-> "bool", v |-> <<"1">>]
JFalse == [t |-> "bool", v |-> <<"0">>]
JArr(items) == [t |-> "arr", v |-> items]
JObj(members) == [t |-> "obj", v |-> members]
Member(key, val) == [k |-> key, v |-> val]

BRICKS == <<"b","r","i","c","k","s">>
EmptyBricks == JObj(<<Member(BRICKS, JArr(<<>>))>>)

HasKey(obj, key) == \E n \in 1..Len(obj.v) : obj.v[n].k = key
ValueOf(obj, key) == obj.v[CHOOSE n \in 1..Len(obj.v) : obj.v[n].k = key].v

\* dict[key] = val: a key already present keeps its place and takes the new value.
DictSet(members, key, val) ==
    IF \E n \in 1..Len(members) : members[n].k = key
    THEN [n \in 1..Len(members) |->
             IF members[n].k = key THEN Member(key, val) ELSE members[n]]
    ELSE Append(members, Member(key, val))

\* --------------------------------------------------------------- json.loads
\* The decoder on the JSON this model's texts use: objects, arrays, strings
\* without escapes, integers, null, true, false, whitespace.

WS == {" ", "\n", "\t", "\r"}

RECURSIVE SkipWs(_, _)
SkipWs(s, i) == IF At(s, i) \in WS THEN SkipWs(s, i + 1) ELSE i

StartsWith(s, i, lit) ==
    i + Len(lit) - 1 <= Len(s) /\ SubSeq(s, i, i + Len(lit) - 1) = lit

Fail == [ok |-> FALSE, val |-> JNull, next |-> 0]
Ok(val, next) == [ok |-> TRUE, val |-> val, next |-> next]

\* The closing quote of the string whose first character is at i; 0 when the
\* string is unterminated or holds a control character.
StringEnd(s, i) ==
    LET stops == { p \in i..Len(s) : s[p] \in {"\"", "\n", "\t", "\r", "\\"} }
    IN  IF stops = {} THEN 0
        ELSE LET p == CHOOSE p \in stops : \A q \in stops : p <= q
             IN  IF s[p] = "\"" THEN p ELSE 0

RECURSIVE AsciiDigitsEnd(_, _)
AsciiDigitsEnd(s, i) ==
    IF At(s, i) \in {"0","1","2","3","4","5","6","7","8","9"}
    THEN AsciiDigitsEnd(s, i + 1) ELSE i - 1

ParseNumber(s, i) ==
    LET first == IF At(s, i) = "-" THEN i + 1 ELSE i
        last == IF At(s, first) = "0" THEN first ELSE AsciiDigitsEnd(s, first)
    IN  IF last < first THEN Fail ELSE Ok(JNum(SubSeq(s, i, last)), last + 1)

RECURSIVE ParseValue(_, _), ParseItems(_, _, _), ParseMembers(_, _, _)

\* scanner.scan_once at position i (whitespace already skipped)
ParseValue(s, i) ==
    LET c == At(s, i)
    IN  IF c = "{" THEN
            IF At(s, SkipWs(s, i + 1)) = "}" THEN Ok(JObj(<<>>), SkipWs(s, i + 1) + 1)
            ELSE ParseMembers(s, SkipWs(s, i + 1), <<>>)
        ELSE IF c = "[" THEN
            IF At(s, SkipWs(s, i + 1)) = "]" THEN Ok(JArr(<<>>), SkipWs(s, i + 1) + 1)
            ELSE ParseItems(s, SkipWs(s, i + 1), <<>>)
        ELSE IF c = "\"" THEN
            LET e == StringEnd(s, i + 1)
            IN  IF e = 0 THEN Fail ELSE Ok(JStr(SubSeq(s, i + 1, e - 1)), e + 1)
        ELSE IF StartsWith(s, i, <<"n","u","l","l">>) THEN Ok(JNull, i + 4)
        ELSE IF StartsWith(s, i, <<"t","r","u","e">>) THEN Ok(JTrue, i + 4)
        ELSE IF StartsWith(s, i, <<"f","a","l","s","e">>) THEN Ok(JFalse, i + 5)
        ELSE ParseNumber(s, i)

\* JSONArray after "[": the value at i, then "," and more, or "]"
ParseItems(s, i, acc) ==
    LET r == ParseValue(s, i)
    IN  IF ~r.ok THEN Fail
        ELSE LET j == SkipWs(s, r.next)
             IN  IF At(s, j) = "," THEN ParseItems(s, SkipWs(s, j + 1), Append(acc, r.val))
                 ELSE IF At(s, j) = "]" THEN Ok(JArr(Append(acc, r.val)), j + 1)
                 ELSE Fail

\* JSONObject after "{": the "key": value at i, then "," and more, or "}"
ParseMembers(s, i, acc) ==
    LET e == StringEnd(s, i + 1)
        colon == SkipWs(s, e + 1)
        r == ParseValue(s, SkipWs(s, colon + 1))
        j == SkipWs(s, r.next)
        acc2 == DictSet(acc, SubSeq(s, i + 1, e - 1), r.val)
    IN  IF At(s, i) # "\"" \/ e = 0 THEN Fail
        ELSE IF At(s, colon) # ":" THEN Fail
        ELSE IF ~r.ok THEN Fail
        ELSE IF At(s, j) = "," THEN ParseMembers(s, SkipWs(s, j + 1), acc2)
        ELSE IF At(s, j) = "}" THEN Ok(JObj(acc2), j + 1)
        ELSE Fail

\* json.loads(s): one value and nothing but whitespace around it; ok = FALSE
\* stands for JSONDecodeError.
json_loads(s) ==
    LET r == ParseValue(s, SkipWs(s, 1))
    IN  IF r.ok /\ SkipWs(s, r.next) = Len(s) + 1 THEN r ELSE Fail

\* ----------------------------------------------------------------- exceptions

NoExc == [type |-> "", msg |-> <<>>]
Exc(type, msg) == [type |-> type, msg |-> msg]

Returned(val) == [exc |-> NoExc, val |-> val]
Raised(e) == [exc |-> e, val |-> JNull]

PyTypeName(val) ==
    CASE val.t = "num" -> <<"i","n","t">>
      [] val.t = "float" -> <<"f","l","o","a","t">>
      [] val.t = "null" -> <<"N","o","n","e","T","y","p","e">>
      [] val.t = "bool" -> <<"b","o","o","l">>
      [] val.t = "str" -> <<"s","t","r">>
      [] val.t = "arr" -> <<"l","i","s","t">>
      [] val.t = "obj" -> <<"d","i","c","t">>

\* ---------------------------------------------------------------- _parse_json

\* The backquote (GRAVE ACCENT), written by its code point.
BQ == "U+0060"

FENCE == <<BQ,BQ,BQ>>
FENCE_JSON == <<BQ,BQ,BQ,"j","s","o","n">>

\* re.sub(fence + "json|" + fence, "", text) from position i, a fence being
\* three backquotes
RECURSIVE RemoveFencesFrom(_, _)
RemoveFencesFrom(text, i) ==
    LET starts == { p \in i..Len(text) : StartsWith(text, p, FENCE) }
    IN  IF starts = {} THEN SubSeq(text, i, Len(text))
        ELSE LET p == CHOOSE p \in starts : \A q \in starts : p <= q
                 n == IF StartsWith(text, p, FENCE_JSON) THEN 7 ELSE 3
             IN  SubSeq(text, i, p - 1) \o RemoveFencesFrom(text, p + n)

RemoveFences(text) == RemoveFencesFrom(text, 1)

\* str.strip()
Strip(s) ==
    LET inner == { i \in 1..Len(s) : s[i] \notin WS }
    IN  IF inner = {} THEN <<>>
        ELSE SubSeq(s, CHOOSE i \in inner : \A j \in inner : i <= j,
                       CHOOSE i \in inner : \A j \in inner : j <= i)

\* needle in haystack, for two str
IsSubstring(needle, hay) ==
    \E i \in 1..(Len(hay) - Len(needle) + 1) : StartsWith(hay, i, needle)

\* "bricks" in data: a key of a dict, an item of a list, a substring of a str
BricksIn(data) ==
    CASE data.t = "obj" -> HasKey(data, BRICKS)
      [] data.t = "arr" -> \E n \in 1..Len(data.v) : data.v[n] = JStr(BRICKS)
      [] data.t = "str" -> IsSubstring(BRICKS, data.v)

\* The operator in, on an int,, None or bool raises TypeError, which the except clause for
\* JSONDecodeError does not catch.
NotIterable(data) ==
    Exc("TypeError", <<"a","r","g","u","m","e","n","t"," ","o","f"," ","t","y","p","e"," ","'">> \o PyTypeName(data) \o <<"'"," ","i","s"," ","n","o","t"," ","i","t","e","r","a","b","l","e">>)

\* RAGPipeline._parse_json
parse_json(text) ==
    LET cleaned_text == Strip(RemoveFences(text))
        decoded == json_loads(cleaned_text)
        data == decoded.val
    IN  IF ~decoded.ok THEN Returned(EmptyBricks)
        ELSE IF data.t \in {"num", "null", "bool"} THEN Raised(NotIterable(data))
        ELSE IF ~BricksIn(data) THEN Returned(EmptyBricks)
        ELSE Returned(data)

ID == <<"i","d">>
NAME == <<"n","a","m","e">>
PREREQUISITES == <<"p","r","e","r","e","q","u","i","s","i","t","e","s">>

\* -------------------------------------------------------- Python built-ins

NL == <<"\n">>

\* bool(val)
Truthy(val) ==
    CASE val.t = "str" -> val.v # <<>>
      [] val.t = "num" -> val.v \notin { <<"0">>, <<"-","0">> }
      [] val.t = "null" -> FALSE
      [] val.t = "bool" -> val = JTrue
      [] val.t = "arr" -> val.v # <<>>
      [] val.t = "obj" -> val.v # <<>>

\* str(val) and repr(val), for strings without quotes or escapes in them
RECURSIVE PyStr(_), PyRepr(_), PyReprItems(_), PyReprMembers(_)
PyStr(val) ==
    CASE val.t = "str" -> val.v
      [] val.t = "num" -> val.v
      [] val.t = "null" -> <<"N","o","n","e">>
      [] val.t = "bool" -> IF val = JTrue THEN <<"T","r","u","e">> ELSE <<"F","a","l","s","e">>
      [] val.t = "arr" -> <<"[">> \o PyReprItems(val.v) \o <<"]">>
      [] val.t = "obj" -> <<"{">> \o PyReprMembers(val.v) \o <<"}">>
PyRepr(val) == IF val.t = "str" THEN <<"'">> \o val.v \o <<"'">> ELSE PyStr(val)
PyReprItems(items) ==
    IF items = <<>> THEN <<>>
    ELSE IF Len(items) = 1 THEN PyRepr(items[1])
    ELSE PyRepr(items[1]) \o COMMA_SPACE \o PyReprItems(Tail(items))
PyReprMembers(members) ==
    IF members = <<>> THEN <<>>
    ELSE LET m == <<"'">> \o members[1].k \o <<"'", ":", " ">> \o PyRepr(members[1].v)
         IN  IF Len(members) = 1 THEN m
             ELSE m \o COMMA_SPACE \o PyReprMembers(Tail(members))

\* dict.get(key, default)
Get(obj, key, default) == IF HasKey(obj, key) THEN ValueOf(obj, key) ELSE default

\* What a for loop over val yields: the items of a list, the keys of a dict, the
\* characters of a str.
IterItems(val) ==
    CASE val.t = "arr" -> val.v
      [] val.t = "obj" -> [n \in 1..Len(val.v) |-> JStr(val.v[n].k)]
      [] val.t = "str" -> [n \in 1..Len(val.v) |-> JStr(<<val.v[n]>>)]

DigitChars == <<"0","1","2","3","4","5","6","7","8","9">>

\* str(n) for a natural number
RECURSIVE IntStr(_)
IntStr(n) == IF n < 10 THEN <<DigitChars[n + 1]>>
             ELSE IntStr(n \div 10) \o <<DigitChars[(n % 10) + 1]>>

NoAttributeGet(val) ==
    Exc("AttributeError", <<"'">> \o PyTypeName(val) \o <<"'"," ","o","b","j","e","c","t"," ","h","a","s"," ","n","o"," ","a","t","t","r","i","b","u","t","e"," ","'","g","e","t","'">>)

NotIterableLoop(val) ==
    Exc("TypeError", <<"'">> \o PyTypeName(val) \o <<"'"," ","o","b","j","e","c","t"," ","i","s"," ","n","o","t"," ","i","t","e","r","a","b","l","e">>)

\* str.join on a list with an item that is no str
JoinTypeError(items) ==
    LET k == CHOOSE k \in 1..Len(items) :
                 items[k].t # "str" /\ \A j \in 1..(k - 1) : items[j].t = "str"
    IN  Exc("TypeError", <<"s","e","q","u","e","n","c","e"," ","i","t","e","m"," ">> \o IntStr(k - 1) \o <<":"," ","e","x","p","e","c","t","e","d"," ","s","t","r"," ","i","n","s","t","a","n","c","e",","," ">>
                         \o PyTypeName(items[k]) \o <<" ","f","o","u","n","d">>)

\* re's pattern.search on a query that is no str
SearchTypeError(val) ==
    Exc("TypeError", <<"e","x","p","e","c","t","e","d"," ","s","t","r","i","n","g"," ","o","r"," ","b","y","t","e","s","-","l","i","k","e"," ","o","b","j","e","c","t",","," ","g","o","t"," ","'">>
                     \o PyTypeName(val) \o <<"'">>)

\* ---------------------------------------------------------- _format_context

CHUNK_TYPE == <<"c","h","u","n","k","_","t","y","p","e">>
META_ID == <<"i","d">>

\* page_content.replace("\n", " ")
ReplaceNewlines(s) == [i \in 1..Len(s) |-> IF s[i] = "\n" THEN " " ELSE s[i]]

\* A faulty variant: the block numbered with enumerate's i, without the + 1.
FormatBlockZeroBased(doc, i) ==
    LET content == Strip(ReplaceNewlines(doc.page_content))
        meta == IF Truthy(doc.metadata) THEN doc.metadata ELSE JObj(<<>>)
        section_type == Upper(Get(meta, CHUNK_TYPE, JStr(<<"G","e","n","e","r","a","l"," ","I","n","f","o">>)).v)
        brick_id == PyStr(Get(meta, META_ID, JStr(<<"U","n","k","n","o","w","n"," ","I","D">>)))
    IN  <<"-","-","-"," ","S","O","U","R","C","E"," ">> \o IntStr(i - 1) \o <<":"," ","B","r","i","c","k"," ">> \o brick_id \o <<" ","[">> \o section_type
        \o <<"]"," ","-","-","-">> \o NL \o content

\* One block of the context for the document at position i (1-based here,
\* enumerate's i + 1). The metadata values are str.
FormatBlock(doc, i) ==
    LET content == Strip(ReplaceNewlines(doc.page_content))
        meta == IF Truthy(doc.metadata) THEN doc.metadata ELSE JObj(<<>>)
        section_type == Upper(Get(meta, CHUNK_TYPE, JStr(<<"G","e","n","e","r","a","l"," ","I","n","f","o">>)).v)
        brick_id == PyStr(Get(meta, META_ID, JStr(<<"U","n","k","n","o","w","n"," ","I","D">>)))
    IN  <<"-","-","-"," ","S","O","U","R","C","E"," ">> \o IntStr(i) \o <<":"," ","B","r","i","c","k"," ">> \o brick_id \o <<" ","[">> \o section_type
        \o <<"]"," ","-","-","-">> \o NL \o content

\* A faulty variant: no test for an empty list, so the join of no blocks.
format_context_unguarded(docs) ==
    Join([i \in 1..Len(docs) |-> FormatBlock(docs[i], i)], NL \o NL)

\* RAGPipeline._format_context
format_context(docs) ==
    IF docs = <<>> THEN <<"N","o"," ","r","e","l","e","v","a","n","t"," ","c","o","n","t","e","x","t"," ","f","o","u","n","d",".">>
    ELSE Join([i \in 1..Len(docs) |-> FormatBlock(docs[i], i)], NL \o NL)

\* ------------------------------------------------------------ _build_prompt

\* The system message is fixed text; its first sentence stands for it.
SYSTEM_MSG == <<"Y","o","u"," ","a","r","e"," ","a"," ","s","t","r","i","c","t"," ","D","a","t","a"," ","E","x","t","r","a","c","t","i","o","n"," ","E","n","g","i","n","e"," ","f","o","r"," ","C","A","T","I","A"," ","a","u","t","o","m","a","t","i","o","n",".">>

\* RAGPipeline._build_prompt
build_prompt(docs, question) ==
    [ system |-> SYSTEM_MSG,
      human |-> <<"*","*","R","e","t","r","i","e","v","a","l"," ","C","o","n","t","e","x","t",":","*","*">> \o NL \o format_context(docs) \o NL \o NL
                \o <<"*","*","T","a","r","g","e","t"," ","O","p","e","r","a","t","i","o","n",":","*","*">> \o NL \o question ]

\* ------------------------------------------------------------ run_batch_row

RowResult(id, name, prereq, description) ==
    ("Brick ID" :> id) @@ ("Brick Name" :> name) @@ ("Prerequisites" :> prereq)
    @@ ("Description" :> description)

NoMatchRecord == RowResult(<<"N","o"," ","M","a","t","c","h">>, <<"-">>, <<"-">>, <<"N","o"," ","r","e","l","e","v","a","n","t"," ","b","r","i","c","k"," ","f","o","u","n","d",".">>)

ErrorRecord(e) == RowResult(<<"E","R","R","O","R">>, <<"S","y","s","t","e","m"," ","E","r","r","o","r">>, <<"-">>, e.msg)

\* The lists the loop over the bricks fills: ids, names, prereqs, reasons.
BrickIds(bs) == [k \in 1..Len(bs) |-> Get(bs[k], ID, JStr(DASH))]

BrickNames(bs) == [k \in 1..Len(bs) |-> Get(bs[k], NAME, JStr(DASH))]

BrickPrereqs(bs) ==
    [k \in 1..Len(bs) |->
        clean_prerequisites(PyStr(Get(bs[k], PREREQUISITES, JStr(DASH))))]

BrickReasons(bs) ==
    [k \in 1..Len(bs) |->
        <<"[">> \o PyStr(Get(bs[k], ID, JStr(DASH)))
        \o <<"]",":"," ","M","a","p","p","e","d"," ","b","a","s","e","d"," ","o","n"," ","o","p","e","r","a","t","i","o","n"," ","d","e","s","c","r","i","p","t","i","o","n",".">>]

Values(items) == [k \in 1..Len(items) |-> items[k].v]

FirstNonDict(bs) ==
    bs[CHOOSE k \in 1..Len(bs) : bs[k].t # "obj" /\ \A j \in 1..(k - 1) : bs[j].t = "obj"]

AllStr(items) == \A k \in 1..Len(items) : items[k].t = "str"

\* A faulty variant: an except clause for the decoder's error alone
CatchesDecodeErrorOnly(e) == e.type = "JSONDecodeError"

\* except Exception: every fault of the model is an Exception.
ExceptionClasses ==
    {"TypeError", "AttributeError", "ConnectionError", "RuntimeError", "TimeoutError"}
CatchesException(e) == e.type \in ExceptionClasses

\* ------------------------------------------ the parts of the state at rest

NoRecord == RowResult(<<>>, <<>>, <<>>, <<>>)
NoPrompt == [system |-> <<>>, human |-> <<>>]

CallIdle ==
    /\ operation_description = JNull
    /\ retriever = "none"
    /\ context = <<>>
    /\ prompt = NoPrompt
    /\ llmText = <<>>
    /\ result = JNull
    /\ bricks = JNull
    /\ ids = <<>>
    /\ names = <<>>
    /\ prereqs = <<>>
    /\ reasons = <<>>
    /\ exc = NoExc
    /\ rag_output = NoRecord

FormatIdle ==
    /\ fdocs = <<>>
    /\ fpc = "off"
    /\ formatted = <<>>

BatchIdle ==
    /\ rows = <<>>
    /\ idx = 0
    /\ results = <<>>
    /\ pc = "off"
    /\ env = <<>>
    /\ CallIdle

\* ------------------------------------------------ SpecText: the text functions

MaxPieces == 3

\* The fragments raw texts are put together from.
Pieces == { <<"K","W">>, <<"S","-","1">>, <<"g">>, <<"-">>, <<"1">>, <<".">>,
            <<",", " ">>, <<"x">>, <<KELVIN,"W">> }

RECURSIVE PieceTexts(_)
PieceTexts(n) ==
    IF n = 0 THEN { <<>> }
    ELSE LET shorter == PieceTexts(n - 1)
         IN  shorter \cup { t \o p : t \in shorter, p \in Pieces }

\* "KW-1 (Launch Catia) and S-5"
LaunchCatiaText ==
    <<"K","W","-","1"," ","(","L","a","u","n","c","h"," ","C","a","t","i","a",")",
      " ","a","n","d"," ","S","-","5">>

ExampleTexts ==
    { LaunchCatiaText,
      <<"k","w","-","1","0",".","5"," ","g","-","3">>,
      <<LONG_S,"-","2",".","7",".","1">>,
      <<"S","-",ARABIC3>>,
      <<"N","o","n","e">> }

RawTexts == PieceTexts(MaxPieces) \cup ExampleTexts

NoText == <<"U+NONE">>

ParseIdle ==
    /\ origin = [doc |-> JNull, fence |-> "none", cut |-> 0]
    /\ modelText = <<>>
    /\ ppc = "off"
    /\ parsed = Returned(JNull)

TextInit ==
    /\ ParseIdle
    /\ BatchIdle
    /\ FormatIdle
    /\ raw \in RawTexts
    /\ tpc = "in"
    /\ cleaned = NoText
    /\ recleaned = NoText
    /\ routed = "none"

CleanPrerequisites ==
    /\ tpc = "in"
    /\ cleaned' = clean_prerequisites(raw)
    /\ tpc' = "cleaned"
    /\ UNCHANGED <<raw, recleaned, routed>>
    /\ UNCHANGED <<parseVars, batchVars, formatVars>>

CleanAgain ==
    /\ tpc = "cleaned"
    /\ recleaned' = clean_prerequisites(cleaned)
    /\ tpc' = "recleaned"
    /\ UNCHANGED <<raw, cleaned, routed>>
    /\ UNCHANGED <<parseVars, batchVars, formatVars>>

SelectRetriever ==
    /\ tpc = "in"
    /\ routed' = select_retriever(raw)
    /\ tpc' = "routed"
    /\ UNCHANGED <<raw, cleaned, recleaned>>
    /\ UNCHANGED <<parseVars, batchVars, formatVars>>

TextNext == CleanPrerequisites \/ CleanAgain \/ SelectRetriever

SpecText == TextInit /\ [][TextNext]_vars

\* ------------------------------------------------- SpecParse: _parse_json

\* What the model may emit: json.dumps of a document, possibly truncated,
\* possibly inside a code fence or after a few words of chatter.

Quote(cs) == <<"\"">> \o cs \o <<"\"">>

RECURSIVE Encode(_), EncodeItems(_), EncodeMembers(_)
Encode(j) ==
    CASE j.t = "str" -> Quote(j.v)
      [] j.t = "num" -> j.v
      [] j.t = "null" -> <<"n","u","l","l">>
      [] j.t = "bool" -> IF j = JTrue THEN <<"t","r","u","e">> ELSE <<"f","a","l","s","e">>
      [] j.t = "arr" -> <<"[">> \o EncodeItems(j.v) \o <<"]">>
      [] j.t = "obj" -> <<"{">> \o EncodeMembers(j.v) \o <<"}">>
EncodeItems(items) ==
    IF items = <<>> THEN <<>>
    ELSE IF Len(items) = 1 THEN Encode(items[1])
    ELSE Encode(items[1]) \o COMMA_SPACE \o EncodeItems(Tail(items))
EncodeMembers(members) ==
    IF members = <<>> THEN <<>>
    ELSE LET m == Quote(members[1].k) \o <<":", " ">> \o Encode(members[1].v)
         IN  IF Len(members) = 1 THEN m
             ELSE m \o COMMA_SPACE \o EncodeMembers(Tail(members))

Wrap(fence, body) ==
    CASE fence = "none" -> body
      [] fence = "json" -> FENCE_JSON \o <<"\n">> \o body \o <<"\n">> \o FENCE
      [] fence = "plain" -> FENCE \o <<" ">> \o body \o <<" ">> \o FENCE
      [] fence = "chatty" -> <<"H","e","r","e",":"," ">> \o body

TextOf(o) ==
    LET body == Encode(o.doc)
    IN  Wrap(o.fence, SubSeq(body, 1, Len(body) - o.cut))


Brick(id, name, prereq) ==
    JObj(<<Member(ID, id), Member(NAME, name), Member(PREREQUISITES, prereq)>>)

MaxBricks == 2

\* Bricks as the prompt asks for them, one whose name holds a fence, one whose
\* prerequisites start with a fenced tag, one with fields missing, and an array
\* item that is no object.
ParseBricks ==
    { Brick(JStr(<<"K","W","-","1">>), JStr(<<"L","a","u","n","c","h">>), JStr(<<"-">>)),
      Brick(JStr(<<"S","-","5">>), JStr(<<"a",BQ,BQ,BQ,"b">>), JStr(<<"K","W","-","1">>)),
      Brick(JStr(<<"G","-","3">>), JStr(<<"C","h","e","c","k">>), JStr(<<BQ,BQ,BQ,"j","s","o","n"," ","S","-","5">>)),
      JObj(<<Member(ID, JStr(<<"K","W","-","1">>))>>),
      JStr(<<"x">>) }

RECURSIVE SeqsUpTo(_, _)
SeqsUpTo(S, n) ==
    IF n = 0 THEN { <<>> }
    ELSE LET shorter == SeqsUpTo(S, n - 1)
         IN  shorter \cup { Append(q, x) : q \in shorter, x \in S }

ParseDocs ==
    { JObj(<<Member(BRICKS, JArr(bs))>>) : bs \in SeqsUpTo(ParseBricks, MaxBricks) }
    \cup { JObj(<<Member(BRICKS, JNull)>>),
           JObj(<<>>),
           JObj(<<Member(<<"i","t","e","m","s">>, JArr(<<>>))>>),
           JNum(<<"1","5">>), JNull, JTrue,
           JStr(<<"m","y"," ","b","r","i","c","k","s">>), JStr(<<"o","k">>),
           JArr(<<JStr(BRICKS)>>), JArr(<<JNum(<<"1">>)>>) }

Origins == [doc : ParseDocs, fence : {"none", "json", "plain", "chatty"}, cut : {0, 1}]

TextIdle ==
    /\ raw = <<>>
    /\ tpc = "off"
    /\ cleaned = NoText
    /\ recleaned = NoText
    /\ routed = "none"

ParseInit ==
    /\ TextIdle
    /\ BatchIdle
    /\ FormatIdle
    /\ origin \in Origins
    /\ modelText = TextOf(origin)
    /\ ppc = "in"
    /\ parsed = Returned(JNull)

ParseJson ==
    /\ ppc = "in"
    /\ parsed' = parse_json(modelText)
    /\ ppc' = "parsed"
    /\ UNCHANGED <<origin, modelText>>
    /\ UNCHANGED <<textVars, batchVars, formatVars>>

ParseNext == ParseJson

SpecParse == ParseInit /\ [][ParseNext]_vars

\* --------------------------------- Spec: process_operations over a batch of rows

MaxRows == 2

NoCall == [kind |-> "none", exc |-> NoExc, docs |-> <<>>, text |-> <<>>]
RaisedBy(e) == [kind |-> "raise", exc |-> e, docs |-> <<>>, text |-> <<>>]
Retrieved(docs) == [kind |-> "return", exc |-> NoExc, docs |-> docs, text |-> <<>>]
Generated(text) == [kind |-> "return", exc |-> NoExc, docs |-> <<>>, text |-> text]

\* An empty cell of the sheet reaches the loop as the float nan.
NAN == [t |-> "float", v |-> <<"n","a","n">>]

Descriptions == { JStr(<<"L","a","u","n","c","h"," ","C","a","t","i","a">>), JStr(<<"r","u","n"," ","k","w","-","1"," ","f","i","r","s","t">>), NAN }

\* The columns of the sheet process_operations reads.
OPERATION_ID == "Operation ID"
OPERATION_DESCRIPTION == "Operation description"

\* A row of the sheet; the ids fall down the sheet, so the order of the ids is
\* not the order of the rows.
SheetRow(k, desc) == (OPERATION_ID :> (MaxRows + 1 - k)) @@ (OPERATION_DESCRIPTION :> desc)

Batches ==
    UNION { { [k \in 1..n |-> SheetRow(k, f[k])] : f \in [1..n -> Descriptions] }
            : n \in 0..MaxRows }

Doc(page_content, metadata) == [page_content |-> page_content, metadata |-> metadata]

DOC1 == Doc(<<"L","a","u","n","c","h","e","s"," ","C","A","T","I","A",".">> \o NL \o <<"N","e","e","d","s"," ","n","o","t","h","i","n","g","."," ">>,
            JObj(<<Member(CHUNK_TYPE, JStr(<<"p","u","r","p","o","s","e">>)), Member(META_ID, JStr(<<"K","W","-","1">>))>>))
DOC2 == Doc(<<"C","h","e","c","k"," ","w","i","n","d","o","w">>, JNull)

\* What the chosen retriever may return.
DocsOf(name) == IF name = "specific" THEN <<DOC1, DOC2>> ELSE <<>>

RetrievalFaults == { Exc("ConnectionError", <<"i","n","d","e","x"," ","u","n","r","e","a","c","h","a","b","l","e">>) }
ModelFaults == { Exc("RuntimeError", <<"q","u","o","t","a"," ","e","x","c","e","e","d","e","d">>), Exc("TimeoutError", <<>>) }

\* What the model may emit for a row.
RowDocs ==
    { JObj(<<Member(BRICKS, JArr(<<
          Brick(JStr(<<"K","W","-","1">>), JStr(<<"L","a","u","n","c","h"," ","C","a","t","i","a">>), JStr(<<"-">>)),
          Brick(JStr(<<"S","-","5">>), JStr(<<"C","h","e","c","k">>), JStr(<<"K","W","-","1"," ","(","L","a","u","n","c","h"," ","C","a","t","i","a",")"," ","a","n","d"," ","S","-","5">>)) >>))>>),
      JObj(<<Member(BRICKS, JArr(<<
          Brick(JStr(<<"G","-","3">>), JStr(<<"O","p","e","n">>), JArr(<<JStr(<<"k","w","-","1">>), JStr(<<"S","-","1","0",".","5">>)>>)),
          Brick(JStr(<<"S","-","7">>), JStr(<<"C","l","o","s","e">>), JNull),
          Brick(JStr(<<"S","-","8">>), JStr(<<"S","a","v","e">>), JNum(<<"4","2">>)),
          JObj(<<Member(ID, JStr(<<"S","-","9">>)), Member(NAME, JStr(<<"E","x","i","t">>))>>) >>))>>),
      JObj(<<Member(BRICKS, JArr(<<
          Brick(JStr(<<"S","-","5">>), JStr(<<"C","h","e","c","k">>), JStr(<<KELVIN,"W","-","1">>)) >>))>>),
      JObj(<<Member(BRICKS, JArr(<<
          Brick(JNum(<<"7">>), JStr(<<"S","e","v","e","n">>), JStr(<<"-">>)) >>))>>),
      JObj(<<Member(BRICKS, JArr(<<JStr(<<"K","W","-","1">>)>>))>>),
      JObj(<<Member(BRICKS, JArr(<<
          Brick(JStr(<<>>), JStr(<<>>), JStr(<<>>)) >>))>>),
      JObj(<<Member(BRICKS, JArr(<<>>))>>),
      JObj(<<Member(<<"i","t","e","m","s">>, JArr(<<>>))>>),
      JNum(<<"5">>),
      JArr(<<JStr(BRICKS)>>) }

RowOrigins ==
    [doc : RowDocs, fence : {"json"}, cut : {0}]
    \cup [doc : {JObj(<<Member(BRICKS, JArr(<<>>))>>)}, fence : {"none", "chatty"}, cut : {0, 1}]

ModelTexts == { TextOf(o) : o \in RowOrigins }

Init ==
    /\ TextIdle
    /\ ParseIdle
    /\ FormatIdle
    /\ rows \in Batches
    /\ idx = 0
    /\ results = <<>>
    /\ pc = "loop"
    /\ env = <<>>
    /\ CallIdle

\* The row the loop is at.
Row == idx + 1

\* An invocation of a component outside the pipeline: a retriever or the model.
Call(target, arg) == [target |-> target, arg |-> arg]

\* The row's history takes the invocation and how it ended.
LogCall(field, what, call) ==
    env' = [env EXCEPT ![Row] = [@ EXCEPT ![field] = what, !.calls = Append(@, call)]]

\* process_operations, the loop head: the next row's description is handed to
\* run_batch_row.
StartRow ==
    /\ pc = "loop"
    /\ idx < Len(rows)
    /\ operation_description' = rows[Row][OPERATION_DESCRIPTION]
    /\ env' = Append(env, [retrieval |-> NoCall, llm |-> NoCall, calls |-> <<>>])
    /\ pc' = "route"
    /\ UNCHANGED <<rows, idx, results, retriever, context, prompt, llmText, result, bricks,
                   lists, exc, rag_output>>
    /\ UNCHANGED <<textVars, parseVars, formatVars>>

\* route_and_retrieve, first half: _select_retriever(query). The pattern's
\* search raises TypeError on a query that is no str.
Route ==
    /\ pc = "route"
    /\ IF operation_description.t = "str"
       THEN /\ retriever' = select_retriever(operation_description.v)
            /\ pc' = "retrieve"
            /\ exc' = exc
       ELSE /\ exc' = SearchTypeError(operation_description)
            /\ pc' = "except"
            /\ retriever' = retriever
    /\ UNCHANGED <<rows, idx, results, operation_description, context, prompt, llmText,
                   result, bricks, lists, rag_output, env>>
    /\ UNCHANGED <<textVars, parseVars, formatVars>>

\* A faulty variant: a fault of the retriever is swallowed and the chain goes on
\* with no documents.
RetrieveOrEmpty ==
    /\ pc = "retrieve"
    /\ \/ /\ context' = DocsOf(retriever)
          /\ LogCall("retrieval", Retrieved(DocsOf(retriever)),
                     Call(retriever, operation_description))
       \/ \E e \in RetrievalFaults :
             /\ context' = <<>>
             /\ LogCall("retrieval", RaisedBy(e), Call(retriever, operation_description))
    /\ pc' = "prompt"
    /\ UNCHANGED <<rows, idx, results, operation_description, retriever, prompt, llmText,
                   result, bricks, lists, exc, rag_output>>
    /\ UNCHANGED <<textVars, parseVars, formatVars>>

\* route_and_retrieve, second half: retriever.invoke(query) returns documents
\* or raises.
Retrieve ==
    /\ pc = "retrieve"
    /\ \/ /\ context' = DocsOf(retriever)
          /\ LogCall("retrieval", Retrieved(DocsOf(retriever)),
                     Call(retriever, operation_description))
          /\ pc' = "prompt"
          /\ exc' = exc
       \/ \E e \in RetrievalFaults :
             /\ exc' = e
             /\ LogCall("retrieval", RaisedBy(e), Call(retriever, operation_description))
             /\ pc' = "except"
             /\ context' = context
    /\ UNCHANGED <<rows, idx, results, operation_description, retriever, prompt, llmText,
                   result, bricks, lists, rag_output>>
    /\ UNCHANGED <<textVars, parseVars, formatVars>>

\* _build_prompt
BuildPrompt ==
    /\ pc = "prompt"
    /\ prompt' = build_prompt(context, operation_description.v)
    /\ pc' = "llm"
    /\ UNCHANGED <<rows, idx, results, operation_description, retriever, context, llmText,
                   result, bricks, lists, exc, rag_output, env>>
    /\ UNCHANGED <<textVars, parseVars, formatVars>>

\* llm_rag | StrOutputParser(): the model returns text or raises.
InvokeModel ==
    /\ pc = "llm"
    /\ \/ \E text \in ModelTexts :
             /\ llmText' = text
             /\ LogCall("llm", Generated(text), Call("llm", prompt))
             /\ pc' = "parse"
             /\ exc' = exc
       \/ \E e \in ModelFaults :
             /\ exc' = e
             /\ LogCall("llm", RaisedBy(e), Call("llm", prompt))
             /\ pc' = "except"
             /\ llmText' = llmText
    /\ UNCHANGED <<rows, idx, results, operation_description, retriever, context, prompt,
                   result, bricks, lists, rag_output>>
    /\ UNCHANGED <<textVars, parseVars, formatVars>>

\* RunnableLambda(self._parse_json), the last step of the chain
ParseOutput ==
    /\ pc = "parse"
    /\ LET out == parse_json(llmText)
       IN  IF out.exc = NoExc
           THEN result' = out.val /\ pc' = "shape" /\ exc' = exc
           ELSE exc' = out.exc /\ pc' = "except" /\ result' = result
    /\ UNCHANGED <<rows, idx, results, operation_description, retriever, context, prompt,
                   llmText, bricks, lists, rag_output, env>>
    /\ UNCHANGED <<textVars, parseVars, formatVars>>

\* run_batch_row after chain.invoke: bricks = result.get("bricks", []), which
\* raises on a result that is no dict, and the No Match record for no bricks.
GetBricks ==
    /\ pc = "shape"
    /\ IF result.t # "obj"
       THEN /\ exc' = NoAttributeGet(result)
            /\ pc' = "except"
            /\ UNCHANGED <<bricks, rag_output>>
       ELSE /\ bricks' = Get(result, BRICKS, JArr(<<>>))
            /\ exc' = exc
            /\ IF Truthy(bricks')
               THEN pc' = "bricks" /\ rag_output' = rag_output
               ELSE pc' = "return" /\ rag_output' = NoMatchRecord
    /\ UNCHANGED <<rows, idx, results, operation_description, retriever, context, prompt,
                   llmText, result, lists, env>>
    /\ UNCHANGED <<textVars, parseVars, formatVars>>

\* The for loop over bricks: raises on bricks that cannot be iterated and on a
\* brick that is no dict; otherwise fills the four lists.
LoopBricks ==
    /\ pc = "bricks"
    /\ IF bricks.t \in {"num", "bool"}
       THEN /\ exc' = NotIterableLoop(bricks)
            /\ pc' = "except"
            /\ UNCHANGED lists
       ELSE IF \E k \in 1..Len(IterItems(bricks)) : IterItems(bricks)[k].t # "obj"
       THEN /\ exc' = NoAttributeGet(FirstNonDict(IterItems(bricks)))
            /\ pc' = "except"
            /\ UNCHANGED lists
       ELSE /\ ids' = BrickIds(IterItems(bricks))
            /\ names' = BrickNames(IterItems(bricks))
            /\ prereqs' = BrickPrereqs(IterItems(bricks))
            /\ reasons' = BrickReasons(IterItems(bricks))
            /\ pc' = "join"
            /\ exc' = exc
    /\ UNCHANGED <<rows, idx, results, operation_description, retriever, context, prompt,
                   llmText, result, bricks, rag_output, env>>
    /\ UNCHANGED <<textVars, parseVars, formatVars>>

\* The return after the loop: the four lists joined by newlines; str.join raises
\* on an id or a name that is no str.
ReturnRecord ==
    /\ pc = "join"
    /\ IF ~AllStr(ids)
       THEN exc' = JoinTypeError(ids) /\ pc' = "except" /\ rag_output' = rag_output
       ELSE IF ~AllStr(names)
       THEN exc' = JoinTypeError(names) /\ pc' = "except" /\ rag_output' = rag_output
       ELSE /\ rag_output' = RowResult(Join(Values(ids), NL), Join(Values(names), NL),
                                       Join(prereqs, NL), Join(reasons, NL))
            /\ pc' = "return"
            /\ exc' = exc
    /\ UNCHANGED <<rows, idx, results, operation_description, retriever, context, prompt,
                   llmText, result, bricks, lists, env>>
    /\ UNCHANGED <<textVars, parseVars, formatVars>>

\* A faulty variant: no except clause, and the exception ends the batch loop
\* with the rows done so far.
ExceptAborts ==
    /\ pc = "except"
    /\ pc' = "done"
    /\ UNCHANGED <<rows, idx, results, callVars, env>>
    /\ UNCHANGED <<textVars, parseVars, formatVars>>

\* run_batch_row's except clause: the ERROR record; an exception the clause does
\* not name leaves run_batch_row and the loop.
Except ==
    /\ pc = "except"
    /\ IF CatchesException(exc)
       THEN rag_output' = ErrorRecord(exc) /\ pc' = "return"
       ELSE rag_output' = rag_output /\ pc' = "crashed"
    /\ UNCHANGED <<rows, idx, results, operation_description, retriever, context, prompt,
                   llmText, result, bricks, lists, exc, env>>
    /\ UNCHANGED <<textVars, parseVars, formatVars>>

\* process_operations, the loop body after the call: the row is appended to
\* results; the locals of the call are gone.
AppendResult ==
    /\ pc = "return"
    /\ results' = Append(results,
                         ("Operation ID" :> rows[Row][OPERATION_ID])
                         @@ ("Operation Description" :> rows[Row][OPERATION_DESCRIPTION])
                         @@ rag_output)
    /\ idx' = idx + 1
    /\ pc' = "loop"
    /\ operation_description' = JNull
    /\ retriever' = "none"
    /\ context' = <<>>
    /\ prompt' = NoPrompt
    /\ llmText' = <<>>
    /\ result' = JNull
    /\ bricks' = JNull
    /\ ids' = <<>>
    /\ names' = <<>>
    /\ prereqs' = <<>>
    /\ reasons' = <<>>
    /\ exc' = NoExc
    /\ rag_output' = NoRecord
    /\ UNCHANGED <<rows, env>>
    /\ UNCHANGED <<textVars, parseVars, formatVars>>

\* process_operations after the loop
Finish ==
    /\ pc = "loop"
    /\ idx = Len(rows)
    /\ pc' = "done"
    /\ UNCHANGED <<rows, idx, results, callVars, env>>
    /\ UNCHANGED <<textVars, parseVars, formatVars>>

Next ==
    \/ StartRow \/ Route \/ Retrieve \/ BuildPrompt \/ InvokeModel \/ ParseOutput
    \/ GetBricks \/ LoopBricks \/ ReturnRecord \/ Except \/ AppendResult \/ Finish

Spec == Init /\ [][Next]_vars

\* ------------------------------------------ SpecFormat: _format_context

MaxDocs == 2

\* page_content of a document: plain, empty, blank, with line breaks inside and
\* with white space around.
PageContents == { <<"x">>, <<>>, <<" ","\n"," ">>, <<"a","\n","b"," ">>, <<"\n","\n","a","\t","b","\r">> }

\* metadata of a document: None, empty, one of the two keys, both.
Metadatas ==
    { JNull,
      JObj(<<>>),
      JObj(<<Member(CHUNK_TYPE, JStr(<<"p","u","r","p","o","s","e">>))>>),
      JObj(<<Member(META_ID, JStr(<<"K","W","-","1">>))>>),
      JObj(<<Member(CHUNK_TYPE, JStr(<<"D","e","p","e","n","d","e","n","c","i","e","s">>)), Member(META_ID, JStr(<<"S","-","5">>))>>) }

FormatDocs == { Doc(c, m) : c \in PageContents, m \in Metadatas }

FormatInit ==
    /\ TextIdle
    /\ ParseIdle
    /\ BatchIdle
    /\ fdocs \in SeqsUpTo(FormatDocs, MaxDocs)
    /\ fpc = "in"
    /\ formatted = <<>>

FormatContext ==
    /\ fpc = "in"
    /\ formatted' = format_context(fdocs)
    /\ fpc' = "formatted"
    /\ UNCHANGED fdocs
    /\ UNCHANGED <<textVars, parseVars, batchVars>>

FormatNext == FormatContext

SpecFormat == FormatInit /\ [][FormatNext]_vars

\* ---------------------------------------------- the Identifier Grammar, stated

\* One or more digits, then optionally a dot and one or more digits.
IsIndexPart(r) ==
    \E k \in 1..Len(r) :
        /\ \A j \in 1..k : IsDigit(r[j])
        /\ \/ k = Len(r)
           \/ /\ k + 2 <= Len(r)
              /\ r[k + 1] = "."
              /\ \A j \in (k + 2)..Len(r) : IsDigit(r[j])

Categories == { <<"K","W">>, <<"S">>, <<"G">> }

\* t, taken whole, is an identifier in canonical (uppercase) form.
IsBrickId(t) ==
    \E c \in Categories :
        /\ Len(t) >= Len(c) + 2
        /\ SubSeq(t, 1, Len(c)) = c
        /\ t[Len(c) + 1] = "-"
        /\ IsIndexPart(SubSeq(t, Len(c) + 2, Len(t)))

\* Two characters are the same letter up to case.
SameLetter(c, d) == UpperChar(c) = UpperChar(d) \/ LowerChar(c) = LowerChar(d)

\* t, taken whole, is an identifier in any case.
IsBrickIdAnyCase(t) ==
    \E c \in Categories :
        /\ Len(t) >= Len(c) + 2
        /\ \A j \in 1..Len(c) : SameLetter(t[j], c[j])
        /\ t[Len(c) + 1] = "-"
        /\ IsIndexPart(SubSeq(t, Len(c) + 2, Len(t)))

\* The pieces of s between occurrences of ", ".
RECURSIVE SplitCommaSpace(_)
SplitCommaSpace(s) ==
    IF \E i \in 1..(Len(s) - 1) : s[i] = "," /\ s[i + 1] = " "
    THEN LET i == CHOOSE i \in 1..(Len(s) - 1) :
                      /\ s[i] = "," /\ s[i + 1] = " "
                      /\ \A j \in 1..(i - 1) : ~(s[j] = "," /\ s[j + 1] = " ")
         IN  <<SubSeq(s, 1, i - 1)>> \o SplitCommaSpace(SubSeq(s, i + 2, Len(s)))
    ELSE <<s>>

\* A sanitized value: "-" or identifiers joined by ", ".
IsIdList(s) ==
    \/ s = DASH
    \/ LET tokens == SplitCommaSpace(s)
       IN  \A k \in 1..Len(tokens) : IsBrickId(tokens[k])

\* The reference scan: the leftmost position at or after i where an identifier
\* (any case) starts, the longest identifier starting there, and on from its end.
RefLongest(s, p) ==
    LET ends == { j \in p..Len(s) : IsBrickIdAnyCase(SubSeq(s, p, j)) }
    IN  IF ends = {} THEN 0 ELSE CHOOSE j \in ends : \A e \in ends : e <= j

RECURSIVE RefScan(_, _)
RefScan(s, i) ==
    LET starts == { p \in i..Len(s) : RefLongest(s, p) # 0 }
    IN  IF starts = {} THEN <<>>
        ELSE LET p == CHOOSE p \in starts : \A q \in starts : p <= q
             IN  <<SubSeq(s, p, RefLongest(s, p))>> \o RefScan(s, RefLongest(s, p) + 1)

Reference(s) ==
    LET found == RefScan(s, 1)
    IN  IF s = <<>> \/ s = DASH \/ found = <<>> THEN DASH
        ELSE Join([k \in 1..Len(found) |-> Upper(found[k])], COMMA_SPACE)

ContainsId(s) == \E i \in 1..Len(s) : \E j \in i..Len(s) : IsBrickIdAnyCase(SubSeq(s, i, j))

\* -------------------------------------------------------------- properties

\* C1: whatever the raw prerequisite text, _clean_prerequisites returns "-" or
\* identifiers joined by ", ", each one, taken whole, an uppercase identifier of
\* the grammar with no letter outside K, W, S, G.
C1_SanitizedIsIdList == tpc = "cleaned" => IsIdList(cleaned)

\* C3: _clean_prerequisites equals the reference: the non-overlapping identifiers
\* of raw, leftmost first and longest at each start, duplicates kept, any case,
\* uppercased and joined by ", "; "-" for the empty text, "-" and texts with no
\* identifier. "KW-1 (Launch Catia) and S-5" gives "KW-1, S-5".
C3_SanitizeIsReference ==
    tpc = "cleaned" =>
        /\ cleaned = Reference(raw)
        /\ raw = LaunchCatiaText =>
               cleaned = <<"K","W","-","1",","," ","S","-","5">>

C3_Witness ==
    /\ tpc = "cleaned"
    /\ raw = LaunchCatiaText
    /\ cleaned = <<"K","W","-","1",","," ","S","-","5">>

\* C4: sanitizing a sanitized text returns it unchanged.
C4_SanitizeIdempotent == tpc = "recleaned" => recleaned = cleaned

C4_Witness ==
    /\ tpc = "recleaned"
    /\ raw # cleaned
    /\ Len(SplitCommaSpace(cleaned)) >= 2
    /\ \E i \in 1..Len(cleaned) : cleaned[i] = "."
    /\ recleaned = cleaned

\* C5: _select_retriever returns the specific retriever exactly when the query
\* holds an identifier of the grammar somewhere (any case, known Brick or not),
\* and the general retriever otherwise.
C5_RouteByIdentifier ==
    tpc = "routed" =>
        /\ routed \in {"specific", "general"}
        /\ routed = "specific" <=> ContainsId(raw)

C5_Witness ==
    /\ tpc = "routed"
    /\ routed = "specific"
    /\ MatchEnd(raw, 1) = 0
    /\ raw[1] = "x"

\* A ParsedResponse: an object whose bricks member is a sequence.
IsParsedResponse(val) ==
    val.t = "obj" /\ HasKey(val, BRICKS) /\ ValueOf(val, BRICKS).t = "arr"

Decoded(text) == json_loads(Strip(RemoveFences(text)))

\* C6: whatever the raw text, _parse_json raises nothing and returns a
\* ParsedResponse; text that does not decode gives {bricks: []}, and so does any
\* decoded value without a bricks key, a number, null, boolean, string or array
\* included.
C6_ParseNeverRaises ==
    ppc = "parsed" =>
        /\ parsed.exc = NoExc
        /\ IsParsedResponse(parsed.val)
        /\ ~Decoded(modelText).ok => parsed.val = EmptyBricks
        /\ (Decoded(modelText).ok /\ ~(Decoded(modelText).val.t = "obj"
                                       /\ HasKey(Decoded(modelText).val, BRICKS)))
               => parsed.val = EmptyBricks

\* C7: for a JSON object with a bricks array, emitted whole inside a code fence,
\* _parse_json returns the same bricks: same order, every string unchanged, also
\* the strings that hold fence characters.
C7_FencedBricksUnchanged ==
    (/\ ppc = "parsed"
     /\ origin.cut = 0
     /\ origin.fence \in {"json", "plain"}
     /\ IsParsedResponse(origin.doc))
        => /\ parsed.exc = NoExc
           /\ IsParsedResponse(parsed.val)
           /\ ValueOf(parsed.val, BRICKS) = ValueOf(origin.doc, BRICKS)

\* The lines of a field: the pieces of s between line breaks.
RECURSIVE SplitLines(_)
SplitLines(s) ==
    IF \E i \in 1..Len(s) : s[i] = "\n"
    THEN LET i == CHOOSE i \in 1..Len(s) : s[i] = "\n" /\ \A j \in 1..(i - 1) : s[j] # "\n"
         IN  <<SubSeq(s, 1, i - 1)>> \o SplitLines(SubSeq(s, i + 1, Len(s)))
    ELSE <<s>>

\* The record of the call in progress has been returned to the loop.
CallReturned == pc = "return"

\* C2: whatever the model wrote in a brick's prerequisites field, every line of
\* the Prerequisites value of a record run_batch_row returns is "-" or valid
\* uppercase identifiers joined by ", ".
C2_PrerequisiteLinesAreIdLists ==
    CallReturned =>
        \A k \in 1..Len(SplitLines(rag_output["Prerequisites"])) :
            IsIdList(SplitLines(rag_output["Prerequisites"])[k])

\* The model output yields zero bricks: it does not decode, or it decodes to a
\* value without the bricks key, or to an object whose bricks array is empty.
YieldsZeroBricks(text) ==
    \/ ~Decoded(text).ok
    \/ ~(Decoded(text).val.t = "obj" /\ HasKey(Decoded(text).val, BRICKS))
    \/ ValueOf(Decoded(text).val, BRICKS) = JArr(<<>>)

NoMatchStated ==
    ("Brick ID" :> <<"N","o"," ","M","a","t","c","h">>) @@ ("Brick Name" :> <<"-">>) @@ ("Prerequisites" :> <<"-">>)
    @@ ("Description" :> <<"N","o"," ","r","e","l","e","v","a","n","t"," ","b","r","i","c","k"," ","f","o","u","n","d",".">>)

\* C8: when retrieval and the model call both succeed and the output yields zero
\* bricks, run_batch_row returns exactly the No Match record, never the ERROR
\* record.
C8_ZeroBricksIsNoMatch ==
    (/\ CallReturned
     /\ env[Row].retrieval.kind = "return"
     /\ env[Row].llm.kind = "return"
     /\ YieldsZeroBricks(env[Row].llm.text))
        => rag_output = NoMatchStated

ErrorStated(description) ==
    ("Brick ID" :> <<"E","R","R","O","R">>) @@ ("Brick Name" :> <<"S","y","s","t","e","m"," ","E","r","r","o","r">>) @@ ("Prerequisites" :> <<"-">>)
    @@ ("Description" :> description)

\* C9: run_batch_row lets no exception out: when the retriever call, the model
\* call or any later step raises, the call returns the ERROR record with the
\* fault's text as Description.
C9_FaultsBecomeErrorRecords ==
    /\ pc # "crashed"
    /\ CallReturned =>
          /\ env[Row].retrieval.kind = "raise" =>
                 rag_output = ErrorStated(env[Row].retrieval.exc.msg)
          /\ env[Row].llm.kind = "raise" => rag_output = ErrorStated(env[Row].llm.exc.msg)
          /\ exc # NoExc => rag_output = ErrorStated(exc.msg)

C9_Witness ==
    /\ CallReturned
    /\ env[Row].retrieval.kind = "raise"
    /\ rag_output = ErrorStated(<<"i","n","d","e","x"," ","u","n","r","e","a","c","h","a","b","l","e">>)

\* What one call returns, from its description and what its retriever and its
\* model did, with nothing of any other row in it.
OutcomeOfItems(items) ==
    IF \E k \in 1..Len(items) : items[k].t # "obj"
    THEN ErrorRecord(NoAttributeGet(FirstNonDict(items)))
    ELSE IF ~AllStr(BrickIds(items)) THEN ErrorRecord(JoinTypeError(BrickIds(items)))
    ELSE IF ~AllStr(BrickNames(items)) THEN ErrorRecord(JoinTypeError(BrickNames(items)))
    ELSE RowResult(Join(Values(BrickIds(items)), NL), Join(Values(BrickNames(items)), NL),
                   Join(BrickPrereqs(items), NL), Join(BrickReasons(items), NL))

OutcomeOfResult(val) ==
    IF val.t # "obj" THEN ErrorRecord(NoAttributeGet(val))
    ELSE LET bs == Get(val, BRICKS, JArr(<<>>))
         IN  IF ~Truthy(bs) THEN NoMatchRecord
             ELSE IF bs.t \in {"num", "bool"} THEN ErrorRecord(NotIterableLoop(bs))
             ELSE OutcomeOfItems(IterItems(bs))

RowOutcome(desc, e) ==
    IF desc.t # "str" THEN ErrorRecord(SearchTypeError(desc))
    ELSE IF e.retrieval.kind = "raise" THEN ErrorRecord(e.retrieval.exc)
    ELSE IF e.llm.kind = "raise" THEN ErrorRecord(e.llm.exc)
    ELSE LET out == parse_json(e.llm.text)
         IN  IF out.exc # NoExc THEN ErrorRecord(out.exc) ELSE OutcomeOfResult(out.val)

\* Calls of run_batch_row begun so far: one per row done, and one for the row in
\* progress.
CallsBegun == Len(env)

RowsInOrder ==
    /\ pc # "crashed"
    /\ Len(results) = idx
    /\ idx <= Len(rows)
    /\ CallsBegun = idx + (IF pc \in {"loop", "done"} THEN 0 ELSE 1)
    /\ pc = "done" => Len(results) = Len(rows)
    /\ \A j \in 1..Len(results) :
          /\ results[j]["Operation ID"] = rows[j][OPERATION_ID]
          /\ results[j]["Operation Description"] = rows[j][OPERATION_DESCRIPTION]
          /\ DOMAIN results[j] = {"Operation ID", "Operation Description", "Brick ID",
                                  "Brick Name", "Prerequisites", "Description"}
    /\ (pc = "loop" /\ idx > 0) =>
          RowResult(results[idx]["Brick ID"], results[idx]["Brick Name"],
                    results[idx]["Prerequisites"], results[idx]["Description"])
              = RowOutcome(rows[idx][OPERATION_DESCRIPTION], env[idx])

\* A step of the loop leaves the sheet, the records so far and what the rows done
\* met as they are, and adds at most the record of the next row.
AppendsOnly ==
    /\ rows' = rows
    /\ SubSeq(env', 1, idx) = SubSeq(env, 1, idx)
    /\ \/ results' = results /\ idx' = idx
       \/ /\ idx' = idx + 1
          /\ Len(results') = Len(results) + 1
          /\ SubSeq(results', 1, Len(results)) = results

\* C10: whatever the rows and whatever faults they meet, process_operations takes
\* the rows one after another in the order of the sheet, calls run_batch_row once
\* a row, and ends with one record a row in that order; the record a row is given
\* is what its own description, retrieval and model output give, whatever
\* happened to the rows before it, and no later step changes it.
C10_BatchCompletesInOrder == []RowsInOrder /\ [][AppendsOnly]_vars

C10_Witness ==
    /\ pc = "done"
    /\ Len(results) >= 2
    /\ results[1]["Brick ID"] = <<"E","R","R","O","R">>
    /\ results[1]["Description"] = <<"q","u","o","t","a"," ","e","x","c","e","e","d","e","d">>
    /\ results[2]["Brick ID"] = <<"K","W","-","1">> \o NL \o <<"S","-","5">>
    /\ results[2]["Prerequisites"] = <<"-">> \o NL \o <<"K","W","-","1",","," ","S","-","5">>

RowResultKeys == {"Brick ID", "Brick Name", "Prerequisites", "Description"}

\* C11: every record run_batch_row returns, mapped bricks, No Match or ERROR, has
\* exactly the four keys Brick ID, Brick Name, Prerequisites and Description, and
\* each of the four values is a non-empty string, whatever ids and names the model
\* wrote and whatever fault was raised, one with an empty message included.
C11_RecordFieldsNonEmpty ==
    CallReturned =>
        /\ DOMAIN rag_output = RowResultKeys
        /\ \A key \in RowResultKeys :
              /\ rag_output[key] \in Seq(STRING)
              /\ rag_output[key] # <<>>

NoContextStated == <<"N","o"," ","r","e","l","e","v","a","n","t"," ","c","o","n","t","e","x","t"," ","f","o","u","n","d",".">>

\* C12: _format_context of an empty list of passages is exactly "No relevant
\* context found.", and for no list of passages is the result the empty string.
C12_EmptyGivesSentinel ==
    fpc = "formatted" =>
        /\ fdocs = <<>> => formatted = NoContextStated
        /\ formatted # <<>>

C12_Witness ==
    /\ fpc = "formatted"
    /\ fdocs = <<>>
    /\ formatted = NoContextStated

Blank == {" ", "\t", "\n", "\r"}

\* s without the white space at its ends.
RECURSIVE Trimmed(_)
Trimmed(s) ==
    IF s = <<>> THEN <<>>
    ELSE IF s[1] \in Blank THEN Trimmed(SubSeq(s, 2, Len(s)))
    ELSE IF s[Len(s)] \in Blank THEN Trimmed(SubSeq(s, 1, Len(s) - 1))
    ELSE s

\* The content of a passage on one line: a space for every line break, then
\* trimmed.
OneLine(s) == Trimmed([i \in 1..Len(s) |-> IF s[i] = "\n" THEN " " ELSE s[i]])

\* The label of a passage: its chunk_type, "General Info" when it has none, in
\* uppercase.
StatedLabel(doc) ==
    IF doc.metadata.t = "obj" /\ HasKey(doc.metadata, CHUNK_TYPE)
    THEN Upper(ValueOf(doc.metadata, CHUNK_TYPE).v)
    ELSE Upper(<<"G","e","n","e","r","a","l"," ","I","n","f","o">>)

\* The source id of a passage: the id of its metadata, "Unknown ID" when it has
\* none.
StatedSourceId(doc) ==
    IF doc.metadata.t = "obj" /\ HasKey(doc.metadata, META_ID)
    THEN ValueOf(doc.metadata, META_ID).v
    ELSE <<"U","n","k","n","o","w","n"," ","I","D">>

StatedBlock(doc, n) ==
    <<"-","-","-"," ","S","O","U","R","C","E"," ">> \o IntStr(n) \o <<":"," ","B","r","i","c","k"," ">> \o StatedSourceId(doc) \o <<" ","[">> \o StatedLabel(doc)
    \o <<"]"," ","-","-","-">> \o <<"\n">> \o OneLine(doc.page_content)

RECURSIVE StatedBlocks(_, _)
StatedBlocks(ds, n) ==
    IF n > Len(ds) THEN <<>>
    ELSE IF n = Len(ds) THEN StatedBlock(ds[n], n)
    ELSE StatedBlock(ds[n], n) \o <<"\n", "\n">> \o StatedBlocks(ds, n + 1)

\* C13: for a list of passages that is not empty, _format_context gives one block
\* a passage, numbered 1..n in the order received, each headed by the passage's
\* source id and its chunk_type in uppercase (the default "General Info", in
\* uppercase too, when the passage has none), then the content with a space for
\* every line break and no white space around.
C13_BlocksInOrder ==
    (fpc = "formatted" /\ fdocs # <<>>) =>
        /\ formatted = StatedBlocks(fdocs, 1)
        /\ fdocs = <<Doc(<<"a","\n","b"," ">>, JObj(<<>>))>> =>
               formatted = <<"-","-","-"," ","S","O","U","R","C","E"," ","1",":"," ","B","r","i","c","k"," ","U","n","k","n","o","w","n"," ","I","D"," ","[","G","E","N","E","R","A","L"," ","I","N","F","O","]"," ","-","-","-","\n","a"," ","b">>

C13_Witness ==
    /\ fpc = "formatted"
    /\ Len(fdocs) = 2
    /\ fdocs[1].metadata = JNull
    /\ fdocs[1].page_content = <<"\n","\n","a","\t","b","\r">>
    /\ fdocs[2].metadata = JObj(<<Member(CHUNK_TYPE, JStr(<<"D","e","p","e","n","d","e","n","c","i","e","s">>)), Member(META_ID, JStr(<<"S","-","5">>))>>)
    /\ formatted = StatedBlocks(fdocs, 1)

\* The steps of a call, and what may follow each.
StepsAfter(step) ==
    CASE step = "route" -> {"retrieve", "except"}
      [] step = "retrieve" -> {"prompt", "except"}
      [] step = "prompt" -> {"llm"}
      [] step = "llm" -> {"parse", "except"}
      [] step = "parse" -> {"shape", "except"}
      [] OTHER -> {"loop", "route", "bricks", "join", "return", "except", "done"}

\* The invocation a step adds to the history of the row in progress is the one
\* due at that step: at retrieve, the first of the row, the retriever the router
\* chose with the row's description; at the model step, the second, the model
\* with the prompt built from what the retriever returned.
CallDue(before, call) ==
    LET d == rows[Row][OPERATION_DESCRIPTION]
    IN  \/ /\ pc = "retrieve"
           /\ Len(before) = 0
           /\ call.target = (IF ContainsId(d.v) THEN "specific" ELSE "general")
           /\ call.arg = d
        \/ /\ pc = "llm"
           /\ Len(before) = 1
           /\ env[Row].retrieval.kind = "return"
           /\ call.target = "llm"
           /\ call.arg = build_prompt(env[Row].retrieval.docs, d.v)

\* A step of a call moves on in the order route, retrieve, prompt, model, parse;
\* what the rows done invoked stays as it is; the row in progress invokes what is
\* due and nothing else.
StepsInOrder ==
    /\ pc' = pc \/ pc' \in StepsAfter(pc)
    /\ SubSeq(env', 1, idx) = SubSeq(env, 1, idx)
    /\ (Len(env) > idx /\ Len(env') = Len(env) /\ env'[Row].calls # env[Row].calls) =>
          /\ Len(env'[Row].calls) = Len(env[Row].calls) + 1
          /\ SubSeq(env'[Row].calls, 1, Len(env[Row].calls)) = env[Row].calls
          /\ CallDue(env[Row].calls, env'[Row].calls[Len(env'[Row].calls)])

\* How many invocations the call of row j has made: none before the retriever is
\* reached, one when the retriever raised, two when the model was reached.
CallsOfRow(j) ==
    /\ Len(env[j].calls) <= 2
    /\ Len(env[j].calls) >= 1 <=> env[j].retrieval.kind # "none"
    /\ Len(env[j].calls) = 2 <=> env[j].llm.kind # "none"
    /\ env[j].llm.kind # "none" => env[j].retrieval.kind = "return"
    /\ (j <= idx \/ pc = "return") =>
          /\ rows[j][OPERATION_DESCRIPTION].t = "str" => Len(env[j].calls) >= 1
          /\ env[j].retrieval.kind = "return" => Len(env[j].calls) = 2

CallsInOrder ==
    /\ \A j \in 1..Len(env) : CallsOfRow(j)
    /\ pc \in {"shape", "bricks", "join"} => env[Row].llm.kind = "return"
    /\ pc = "parse" => llmText = env[Row].llm.text

\* C14: in every call of run_batch_row the steps come in the order route,
\* retrieve, build prompt, invoke model, parse; the retriever the router chose,
\* and no other, is invoked once with the description; the model is invoked at
\* most once and only after the retriever returned; nothing is retried and nothing
\* is kept from an earlier call, so every call with the same description does its
\* own retrieval and its own model invocation.
C14_StepsAndCallsInOrder == []CallsInOrder /\ [][StepsInOrder]_vars

C14_Witness ==
    /\ pc = "done"
    /\ Len(rows) >= 2
    /\ rows[1][OPERATION_DESCRIPTION] = rows[2][OPERATION_DESCRIPTION]
    /\ Len(env[1].calls) = 2
    /\ env[2].calls = env[1].calls
    /\ env[1].calls[1].target = "specific"

====
